---- MODULE Spec2Model ----
(***************************************************************************)
(* Orphan-Sweeper: the detection engine of orphan_sweeper.py.              *)
(*                                                                         *)
(* One behaviour is a sequence of program invocations ("runs") against one *)
(* filesystem and one persistent SQLite cache.  A run is find_orphans:     *)
(* directory pairing and scans, the metadata filter, the two hashing       *)
(* pipelines (_compute_hashes_parallel over _get_file_hash), the final     *)
(* _flush_cache, and the orphan list; then the deletion loop of run().     *)
(* An external interrupt can arrive at any moment of a run; other          *)
(* processes remove and rewrite files meanwhile, and the cache file can be *)
(* locked by another process when a statement reaches it.                  *)
(*                                                                         *)
(* Units: a block is 5 MiB, half of chunk_size.  A file content is a       *)
(* sequence of blocks, each block filled with one byte value; sizes and    *)
(* chunk_size are counted in blocks.  The offset of the middle window of a *)
(* file of an odd number of blocks falls in the middle of a block, so the  *)
(* reads are counted in half blocks.  MD5 is modelled as injective on the  *)
(* bytes fed to the hasher: a fingerprint is the sequence of half blocks   *)
(* hashed.  The universe Files is the set of paths with a video extension  *)
(* and a name without "sample"; the size policy is part of the scan.       *)
(***************************************************************************)
EXTENDS Integers, Sequences, FiniteSets, TLC

\* ---------------------------------------------------------------- bounds
MaxWorkers == 2
MaxRuns == 2
MaxVanished == 1
MaxUnreadable == 1
MaxStoreFailures == 1
MaxSelectFailures == 1
MaxTouched == 1
\* The largest file, in blocks, that _get_file_hash is called on directly.
MaxFileSize == 7
\* The large batch: number of source files, of destination files, and of
\* the candidates that are still queued when the run over it is taken up.
NumBatchSources == 99
NumBatchDests == 2
FreeTail == 2

\* ------------------------------------------------------- program constants
\* chunk_size, in blocks
chunk_size == 2
\* len(self.pending_commits) >= 100
FlushThreshold == 100
\* _scan_directory skips the files under 350 MiB: 70 blocks
min_size == 70

\* ---------------------------------------------------------------- inputs
\* The paths of the universe, in the order rglob yields them.
Paths == <<"a.mkv", "b.mkv", "c.mkv">>
Files == { Paths[i] : i \in DOMAIN Paths }
Roots == {"src", "d1", "d2"}
SubNames == {"A"}
source_dir == <<"src">>
dest_dirs == << <<"d1">>, <<"d2">> >>

\* The paths of the large batch, in the order rglob yields them: the source
\* files, then the destination files.
BatchPaths == [i \in 1..(NumBatchSources + NumBatchDests) |-> "f" \o ToString(i)]

\* The content of n blocks whose first block holds the value first and
\* whose other blocks hold 1.
Content(first, n) == [i \in 1..n |-> IF i = 1 THEN first ELSE 1]

\* Two contents of the smallest size the scan keeps, which differ in a
\* sampled block, and a content one block longer.
Plain == Content(1, min_size)
Contents == { Plain, Content(2, min_size) }
Longer == Content(1, min_size + 1)
Mtimes == {1, 2}

\* The directories a file can live in: a root or a subdirectory of a root.
Dirs == { <<r>> : r \in Roots } \cup { <<r, s>> : r \in Roots, s \in SubNames }

FileAttr == [dir : Dirs, content : Contents, mtime : Mtimes,
             readable : BOOLEAN, exists : BOOLEAN]

\* The value Python's None is modelled by: no fingerprint is the empty digest.
NoHash == <<>>

\* The outcome of a future whose call raised sqlite3.Error.
Raised == <<"sqlite3.Error">>

\* The holders of db_lock are numbered: a pool thread by the index of the
\* future it runs, the controlling flow by 0; Free is the lock held by none.
MainThread == 0
Free == 0 - 1

VARIABLES
    fs,               \* the filesystem: path -> attributes
    dirs,             \* root -> names of its immediate subdirectories
    max_workers,      \* self.max_workers
    file_cache,       \* rows of the SQLite table file_cache
    pending_commits,  \* self.pending_commits
    pc,               \* position of the controlling flow
    run,              \* number of the current invocation
    candidates,       \* find_orphans: candidates
    dest_files,       \* find_orphans: dest_files
    files,            \* _compute_hashes_parallel: files (the batch)
    task,             \* state of each future of the batch
    ret,              \* value each finished future holds
    stat,             \* _get_file_hash: what file_path.stat() returned to each future
    result,           \* _compute_hashes_parallel: result
    completed,        \* _compute_hashes_parallel: completed
    candidate_hashes, \* find_orphans: candidate_hashes
    dest_hashes,      \* find_orphans: dest_hashes
    orphans,          \* find_orphans: orphans
    opened,           \* paths whose file was opened for hashing in this run
    vanished,         \* number of files removed by the environment so far
    cleared,          \* clear_cache ran since the current run ended
    prev,             \* the previous run: where it ended, what it returned,
                      \* whether the cache was cleared after it
    db_lock,          \* self.db_lock: the thread that holds it, or Free
    store_failures,   \* number of store writes that raised sqlite3.Error
    select_failures,  \* number of store lookups that raised sqlite3.Error
    write_failed,     \* the last write of the batch to the store raised
    touched,          \* number of files rewritten by the environment so far
    verbose,          \* self.verbose
    log_queue,        \* the lines put on self.log_queue in this run
    dry_run,          \* args.dry_run
    auto_delete,      \* args.auto_delete
    force_delete_folders, \* args.force_delete_folders
    yes_to_all,       \* run: yes_to_all
    deleted_files,    \* run: deleted_files
    asked,            \* number of answers read from the user by input()
    visited,          \* the orphans the deletion loop has been through
    replies,          \* the answers read by input() so far, each with its
                      \* question and the file the question was about
    passed,           \* the orphans the loop has called delete_file for
    current,          \* run: orphan, the orphan the loop is at
    litter            \* the directories that hold an entry other than a
                      \* file of the universe

vars == <<fs, dirs, max_workers, file_cache, pending_commits, pc, run,
          candidates, dest_files, files, task, ret, stat, result, completed,
          candidate_hashes, dest_hashes, orphans, opened, vanished, cleared, prev,
          db_lock, store_failures, select_failures, write_failed, touched,
          verbose, log_queue, dry_run, auto_delete, force_delete_folders,
          yes_to_all, deleted_files, asked, visited, replies, passed, current,
          litter>>

\* The lock, the failure and change counters and the verbosity.
control == <<db_lock, store_failures, select_failures, write_failed, touched,
             verbose>>

\* The arguments and the state of the deletion loop of run().
deletion == <<dry_run, auto_delete, force_delete_folders, yes_to_all,
              deleted_files, asked, visited, replies, passed, current, litter>>

\* ------------------------------------------------------------- helpers
Max(a, b) == IF a >= b THEN a ELSE b
Min(a, b) == IF a <= b THEN a ELSE b

Range(s) == { s[i] : i \in DOMAIN s }

IsPrefix(p, d) == Len(p) <= Len(d) /\ SubSeq(d, 1, Len(p)) = p

RECURSIVE NamesToSeq(_)
NamesToSeq(S) ==
    IF S = {} THEN <<>>
    ELSE LET x == CHOOSE y \in S : TRUE
         IN  <<x>> \o NamesToSeq(S \ {x})

RECURSIVE Flatten(_)
Flatten(ss) == IF ss = <<>> THEN <<>> ELSE Head(ss) \o Flatten(Tail(ss))

RECURSIVE Dedup(_)
Dedup(s) ==
    IF s = <<>> THEN <<>>
    ELSE LET r == Dedup(SubSeq(s, 1, Len(s) - 1))
             x == s[Len(s)]
         IN  IF x \in Range(r) THEN r ELSE Append(r, x)

\* The empty dict.
EmptyMap == [h \in {} |-> NoHash]

\* dict[key] = value
Put(map, key, value) ==
    [k \in DOMAIN map \cup {key} |-> IF k = key THEN value ELSE map[k]]

\* -------------------------------------------------- Fingerprint Computer
\* The bytes of a content, in half blocks.
Halves(content) == [k \in 1..(2 * Len(content)) |-> content[(k + 1) \div 2]]

\* f.seek(pos); f.read(n): the bytes from pos, at most n, fewer at end of file.
ReadAt(bytes, pos, n) == SubSeq(bytes, pos + 1, Min(pos + n, Len(bytes)))

\* The three hasher.update calls of _get_file_hash and hexdigest(), with
\* file_size and chunk_size converted to half blocks; a negative seek offset
\* raises OSError, which yields no fingerprint.
ComputeDigest(content, file_size) ==
    LET bytes == Halves(content)
        size  == 2 * file_size
        chunk == 2 * chunk_size
        mid   == (size \div 2) - (chunk \div 2)
        last  == Max(0, size - chunk)
    IN  IF mid < 0 THEN NoHash
        ELSE ReadAt(bytes, 0, chunk)
             \o ReadAt(bytes, mid, chunk)
             \o ReadAt(bytes, last, chunk)

\* ----------------------------------------------------- Fingerprint Cache
Row(path, mtime, size, hash) ==
    [path |-> path, mtime |-> mtime, size |-> size, hash |-> hash]

SameKey(r, q) == r.path = q.path /\ r.mtime = q.mtime /\ r.size = q.size

\* Mutant of Lookup: size and mtime are bound to each other's parameter.
LookupSwapped(table, path, mtime, size) ==
    LET hit == { r \in table : r.path = path /\ r.mtime = size /\ r.size = mtime }
    IN  IF hit = {} THEN NoHash ELSE (CHOOSE r \in hit : TRUE).hash

\* SELECT hash FROM file_cache WHERE path=? AND mtime=? AND size=?; fetchone()
Lookup(table, path, mtime, size) ==
    LET hit == { r \in table : r.path = path /\ r.mtime = mtime /\ r.size = size }
    IN  IF hit = {} THEN NoHash ELSE (CHOOSE r \in hit : TRUE).hash

\* Mutant of InsertOrReplace: a row replaces the rows of its path.
InsertOrReplaceByPath(table, rows) ==
    LET Replaced(r) == \E k \in DOMAIN rows : r.path = rows[k].path
        Stays(k) == \A j \in (k + 1)..Len(rows) : rows[j].path # rows[k].path
    IN  { r \in table : ~Replaced(r) }
            \cup { rows[k] : k \in { j \in DOMAIN rows : Stays(j) } }

\* INSERT OR REPLACE INTO file_cache ... executemany(rows); commit(): each
\* row replaces the row of its key, so that of the rows of one key the last
\* one stays.
InsertOrReplace(table, rows) ==
    LET Replaced(r) == \E k \in DOMAIN rows : SameKey(r, rows[k])
        Stays(k) == \A j \in (k + 1)..Len(rows) : ~SameKey(rows[j], rows[k])
    IN  { r \in table : ~Replaced(r) }
            \cup { rows[k] : k \in { j \in DOMAIN rows : Stays(j) } }

\* ------------------------------------------------------------- scanner
FileInfo(f) == [path |-> f, size |-> Len(fs[f].content), mtime |-> fs[f].mtime]

\* file_path.stat(): st_mtime and st_size of the file at f; the value of a
\* future that has not called it.
Stat(f) == [mtime |-> fs[f].mtime, size |-> Len(fs[f].content)]
NoStat == [mtime |-> 0, size |-> 0]

DirExists(d) == Len(d) = 1 \/ d[2] \in dirs[d[1]]

\* The paths of the filesystem at hand, in the order rglob yields them.
Listing == IF Paths[1] \in DOMAIN fs THEN Paths ELSE BatchPaths

\* _scan_directory: the records of the files that directory.rglob("*")
\* yields, the entries of the directory before those of its subdirectories,
\* and that are not under min_size.
ScanDirectory(directory) ==
    IF ~DirExists(directory) THEN <<>>
    ELSE LET Kept(f) == fs[f].exists /\ Len(fs[f].content) >= min_size
             Direct(f) == Kept(f) /\ fs[f].dir = directory
             Below(f) == /\ Kept(f)
                         /\ IsPrefix(directory, fs[f].dir)
                         /\ fs[f].dir # directory
             found == SelectSeq(Listing, Direct) \o SelectSeq(Listing, Below)
         IN  [i \in 1..Len(found) |-> FileInfo(found[i])]

\* {d.name for d in directory.iterdir() if d.is_dir()}, for a root directory
Subdirs(directory) == dirs[directory[1]]

\* ------------------------------------------------------ Orphan Resolver
\* The pairs appended for one destination: its subdirectories in common
\* with the source.
PairsWith(dest_dir) ==
    LET common == NamesToSeq(Subdirs(source_dir) \cap Subdirs(dest_dir))
    IN  [i \in 1..Len(common) |->
            <<source_dir \o <<common[i]>>, dest_dir \o <<common[i]>>>>]

\* matched_pairs, with the fallback to the root directories
MatchedPairs ==
    LET matched == Flatten([i \in 1..Len(dest_dirs) |-> PairsWith(dest_dirs[i])])
    IN  IF matched = <<>>
        THEN [i \in 1..Len(dest_dirs) |-> <<source_dir, dest_dirs[i]>>]
        ELSE matched

ScanAll(directories) ==
    Flatten([i \in 1..Len(directories) |-> ScanDirectory(directories[i])])

\* source_files
SourceFiles ==
    LET srcs == [i \in 1..Len(MatchedPairs) |-> MatchedPairs[i][1]]
    IN  IF source_dir \in Range(srcs)
        THEN ScanDirectory(source_dir)
        ELSE ScanAll(Dedup(srcs))

\* dest_files
DestFiles ==
    ScanAll(Dedup([i \in 1..Len(MatchedPairs) |-> MatchedPairs[i][2]]))

\* dest_metadata
DestMetadata(dfiles) == { <<dfiles[i].size, dfiles[i].mtime>> : i \in DOMAIN dfiles }

\* Mutant of InDestMetadata: the pair is built in the other order.
InDestMetadataSwapped(f, dfiles) == <<f.mtime, f.size>> \in DestMetadata(dfiles)

\* candidates: the metadata fast filter
InDestMetadata(f, dfiles) == <<f.size, f.mtime>> \in DestMetadata(dfiles)

MetadataFilter(sfiles, dfiles) ==
    LET Keep(f) == ~InDestMetadata(f, dfiles)
    IN  SelectSeq(sfiles, Keep)

\* Mutant of DestToHash: every destination record is hashed.
DestToHashAll(cands, dfiles) == dfiles

\* dest_to_hash: the destination records with a candidate's size
DestToHash(cands, dfiles) ==
    LET candidate_sizes == { cands[i].size : i \in DOMAIN cands }
        Keep(f) == f.size \in candidate_sizes
    IN  SelectSeq(dfiles, Keep)

\* orphans: the content filter
ContentFilter(chashes, dhashes) ==
    { chashes[h] : h \in { k \in DOMAIN chashes : k \notin dhashes } }

\* ------------------------------------------------------------ state
NoRun == [pc |-> "none", orphans |-> {}, cleared |-> FALSE, failures |-> 0]

\* The loop variable of the deletion loop outside an iteration.
NoOrphan == [path |-> "", size |-> 0, mtime |-> 0]

PipelinePcs == {"hashCand", "hashDest"}

\* The positions of a pool thread (see the section on the threads and
\* db_lock).
WaitingPcs == {"atLookup", "atAppend"}
LockedPcs == {"inLookup", "inAppend", "inFlush"}
WorkerPcs == WaitingPcs \cup LockedPcs \cup {"taken", "running"}
EndPcs == {"returned", "crashed", "exited"}

\* The positions of the controlling flow inside an iteration of the deletion
\* loop of run() (see the section on the deletion loop).
LoopPcs == {"confirm", "delete", "listdir", "askFolder", "sweep"}

\* The state after construction: nothing pending, nothing computed.
Fresh ==
    /\ pending_commits = <<>>
    /\ candidates = <<>>
    /\ dest_files = <<>>
    /\ files = <<>>
    /\ task = <<>>
    /\ ret = <<>>
    /\ stat = <<>>
    /\ result = EmptyMap
    /\ completed = 0
    /\ candidate_hashes = EmptyMap
    /\ dest_hashes = {}
    /\ orphans = {}
    /\ opened = {}

\* A path with no file.
Absent == [dir |-> <<"src">>, content |-> Plain, mtime |-> 1,
           readable |-> TRUE, exists |-> FALSE]

\* The filesystems with a file at each of the first n paths.  The first path
\* is a source file; contents and mtimes are interchangeable, so the first
\* file has the first of each.  The subdirectories are those that hold a
\* file.
InitFs(n) ==
    /\ fs \in [Files -> FileAttr]
    /\ \A i \in DOMAIN Paths :
           IF i <= n THEN fs[Paths[i]].exists ELSE fs[Paths[i]] = Absent
    /\ fs[Paths[1]].dir[1] = "src"
    /\ fs[Paths[1]].content = Plain
    /\ fs[Paths[1]].mtime = 1
    /\ Cardinality({ f \in Files : ~fs[f].readable }) <= MaxUnreadable
    /\ dirs = [r \in Roots |->
                  { sub \in SubNames :
                      \E f \in Files : fs[f].exists /\ fs[f].dir = <<r, sub>> }]

InitProgram ==
    /\ max_workers \in 1..MaxWorkers
    /\ file_cache = {}
    /\ pc = "start"
    /\ run = 1
    /\ Fresh
    /\ vanished = 0
    /\ cleared = FALSE
    /\ prev = NoRun
    /\ db_lock = Free
    /\ store_failures = 0
    /\ select_failures = 0
    /\ write_failed = FALSE
    /\ touched = 0
    /\ log_queue = <<>>
    /\ yes_to_all = FALSE
    /\ deleted_files = {}
    /\ asked = 0
    /\ visited = {}
    /\ replies = <<>>
    /\ passed = {}
    /\ current = NoOrphan

\* The defaults of the command line: not verbose, no deletion option.
InitArgs ==
    /\ verbose = FALSE
    /\ dry_run = FALSE
    /\ auto_delete = FALSE
    /\ force_delete_folders = FALSE

\* A source tree with video files only.
InitNoLitter == litter = {}

\* One invocation over three files.
Init == InitFs(3) /\ InitProgram /\ InitArgs /\ InitNoLitter

\* Successive invocations over two files in directories without
\* subdirectories; the two destinations are interchangeable for one file,
\* so the second file is in the source or in the first destination.
InitRuns ==
    /\ InitFs(2)
    /\ dirs = [r \in Roots |-> {}]
    /\ fs[Paths[2]].dir[1] \in {"src", "d1"}
    /\ InitProgram
    /\ InitArgs
    /\ InitNoLitter

\* executor.submit for every record of the batch: all futures are queued.
Submit(batch) ==
    /\ files' = batch
    /\ task' = [i \in 1..Len(batch) |-> "queued"]
    /\ ret' = [i \in 1..Len(batch) |-> NoHash]
    /\ stat' = [i \in 1..Len(batch) |-> NoStat]
    /\ result' = EmptyMap
    /\ completed' = 0

\* ------------------------------------------------ find_orphans, stage 1
\* Directory pairing, the scans and the metadata filter; with no candidate
\* find_orphans returns [], otherwise the candidates are submitted.
\* Mutant of NoCandidates: find_orphans never returns early.
NoCandidatesNever(cands) == FALSE

\* if not candidates: return []
NoCandidates(cands) == cands = <<>>

FindOrphansScan ==
    /\ pc = "start"
    /\ LET source_files == SourceFiles
           dfiles == DestFiles
           cands == MetadataFilter(source_files, dfiles)
       IN  /\ dest_files' = dfiles
           /\ candidates' = cands
           /\ IF NoCandidates(cands)
              THEN /\ pc' = "returned"
                   /\ UNCHANGED <<files, task, ret, stat, result, completed>>
              ELSE /\ pc' = "hashCand"
                   /\ Submit(cands)
    /\ orphans' = {}
    /\ UNCHANGED <<fs, dirs, max_workers, file_cache, pending_commits, run,
                   candidate_hashes, dest_hashes, opened, vanished, cleared, prev>>
    /\ UNCHANGED <<control, log_queue, deletion>>

\* ------------------------------------------------------ _get_file_hash
\* A line of the verbose log: its text and the file name it shows.
Line(kind, path) == [kind |-> kind, name |-> path]

\* if self.verbose: self.log_queue.put(...)
LogPut(queue, kind, path) ==
    IF verbose THEN Append(queue, Line(kind, path)) ELSE queue

\* ============================================ the threads and db_lock
\* _get_file_hash and _flush_cache at the grain of their critical sections:
\* a thread waits at a "with self.db_lock:" statement, holds the lock while
\* it is inside the block and releases it when it leaves the block, by its
\* end, by a return or by an exception.
\*
\* Positions of a pool thread:
\*   "taken"     the work item has left the queue, _get_file_hash not begun
\*   "atLookup"  stat done, waiting for the lock of the lookup
\*   "inLookup"  holding the lock, before the SELECT
\*   "running"   after a miss, before the file is opened
\*   "atAppend"  digest computed, waiting for the lock of the append
\*   "inAppend"  holding the lock, before pending_commits.append
\*   "inFlush"   holding the lock, the batch reached the threshold

\* The futures a pool thread has taken from the queue and not finished.
InFlight == { i \in DOMAIN task : task[i] \in WorkerPcs }

\* Mutant of CanAcquire: the lock is taken whoever holds it.
CanAcquireAlways(lock) == TRUE

\* Lock.acquire() returns only when no thread holds the lock.
CanAcquire(lock) == lock = Free

\* Mutant of Release: the block is left with the lock still held.
ReleaseNever(lock) == lock

\* Lock.release() on leaving the with block
Release(lock) == Free

\* The frame of a step of a pool thread that meets no store error.
WorkerFrame ==
    /\ UNCHANGED <<fs, dirs, max_workers, pc, run, candidates, dest_files,
                   files, result, completed, candidate_hashes, dest_hashes,
                   orphans, vanished, cleared, prev>>
    /\ UNCHANGED <<stat, store_failures, select_failures, touched, verbose,
                   deletion>>

\* A thread of the pool that runs no future takes the first work item of
\* the queue.  From then on the future is out of the reach of
\* shutdown(cancel_futures=True), which empties the queue only.
TakeTask(i) ==
    /\ pc \in PipelinePcs \cup {"interrupted"}
    /\ task[i] = "queued"
    /\ \A j \in 1..(i - 1) : task[j] # "queued"
    /\ Cardinality(InFlight) < max_workers
    /\ task' = [task EXCEPT ![i] = "taken"]
    /\ UNCHANGED <<file_cache, pending_commits, ret, opened, log_queue, db_lock>>
    /\ write_failed' = write_failed
    /\ WorkerFrame

\* The thread runs the work item: _get_file_hash begins with
\* file_path.stat(), whose OSError returns None.  The main thread can have
\* been interrupted meanwhile.
BeginTask(i) ==
    /\ pc \in PipelinePcs \cup {"interrupted"}
    /\ task[i] = "taken"
    /\ IF fs[files[i].path].exists
       THEN /\ task' = [task EXCEPT ![i] = "atLookup"]
            /\ stat' = [stat EXCEPT ![i] = Stat(files[i].path)]
            /\ ret' = ret
       ELSE /\ task' = [task EXCEPT ![i] = "done"]
            /\ stat' = stat
            /\ ret' = [ret EXCEPT ![i] = NoHash]
    /\ UNCHANGED <<fs, dirs, max_workers, file_cache, pending_commits, pc, run,
                   candidates, dest_files, files, result, completed,
                   candidate_hashes, dest_hashes, orphans, opened, vanished,
                   cleared, prev>>
    /\ UNCHANGED <<control, log_queue, deletion>>

\* with self.db_lock: (line 120)
AcquireLookup(i) ==
    /\ pc \in PipelinePcs \cup {"interrupted"}
    /\ task[i] = "atLookup"
    /\ CanAcquire(db_lock)
    /\ db_lock' = i
    /\ task' = [task EXCEPT ![i] = "inLookup"]
    /\ UNCHANGED <<file_cache, pending_commits, ret, opened, log_queue>>
    /\ write_failed' = write_failed
    /\ WorkerFrame

\* The SELECT under the lock (lines 121-129).  A hit returns the row's
\* fingerprint, a miss leaves the block.  The statement is outside the try
\* block of lines 131-161: when it raises sqlite3.OperationalError (the
\* cache file is locked by another process) the exception leaves the with
\* block, which releases the lock, and _get_file_hash; the future holds the
\* exception and the file is not opened.
LookupCache(i) ==
    /\ pc \in PipelinePcs \cup {"interrupted"}
    /\ task[i] = "inLookup"
    /\ \/ /\ LET path == files[i].path
                  row == Lookup(file_cache, path, stat[i].mtime, stat[i].size)
              IN  IF row # NoHash
                  THEN /\ task' = [task EXCEPT ![i] = "done"]
                       /\ ret' = [ret EXCEPT ![i] = row]
                       /\ log_queue' = LogPut(log_queue, "Cache hit", path)
                  ELSE /\ task' = [task EXCEPT ![i] = "running"]
                       /\ ret' = ret
                       /\ log_queue' = log_queue
          /\ select_failures' = select_failures
       \/ /\ select_failures < MaxSelectFailures
          /\ select_failures' = select_failures + 1
          /\ task' = [task EXCEPT ![i] = "done"]
          /\ ret' = [ret EXCEPT ![i] = Raised]
          /\ log_queue' = log_queue
    /\ db_lock' = Release(db_lock)
    /\ UNCHANGED <<file_cache, pending_commits, opened>>
    /\ UNCHANGED <<fs, dirs, max_workers, pc, run, candidates, dest_files,
                   files, result, completed, candidate_hashes, dest_hashes,
                   orphans, vanished, cleared, prev>>
    /\ UNCHANGED <<stat, store_failures, write_failed, touched, verbose,
                   deletion>>

\* open, the three reads and hexdigest, with the file_size of the stat and
\* the content the file has now; an OSError returns None.
HashFile(i) ==
    /\ pc \in PipelinePcs \cup {"interrupted"}
    /\ task[i] = "running"
    /\ LET path == files[i].path
           open_ok == fs[path].exists /\ fs[path].readable
           file_hash == ComputeDigest(fs[path].content, stat[i].size)
       IN  /\ opened' = opened \cup {path}
           /\ log_queue' = LogPut(log_queue, "Calculating hash", path)
           /\ IF open_ok /\ file_hash # NoHash
              THEN /\ task' = [task EXCEPT ![i] = "atAppend"]
                   /\ ret' = [ret EXCEPT ![i] = file_hash]
              ELSE /\ task' = [task EXCEPT ![i] = "done"]
                   /\ ret' = [ret EXCEPT ![i] = NoHash]
    /\ UNCHANGED <<file_cache, pending_commits, db_lock>>
    /\ write_failed' = write_failed
    /\ WorkerFrame

\* with self.db_lock: (line 148)
AcquireAppend(i) ==
    /\ pc \in PipelinePcs \cup {"interrupted"}
    /\ task[i] = "atAppend"
    /\ CanAcquire(db_lock)
    /\ db_lock' = i
    /\ task' = [task EXCEPT ![i] = "inAppend"]
    /\ UNCHANGED <<file_cache, pending_commits, ret, opened, log_queue>>
    /\ write_failed' = write_failed
    /\ WorkerFrame

\* Mutant of ReachedThreshold: the batch is never flushed by a pool thread.
ReachedThresholdNever(batch) == FALSE

\* if len(self.pending_commits) >= 100
ReachedThreshold(batch) == Len(batch) >= FlushThreshold

\* pending_commits.append(...) and the test of the threshold: below it the
\* block ends and the fingerprint is returned.
AppendRow(i) ==
    /\ pc \in PipelinePcs \cup {"interrupted"}
    /\ task[i] = "inAppend"
    /\ LET path == files[i].path
           batch == Append(pending_commits,
                           Row(path, stat[i].mtime, stat[i].size, ret[i]))
       IN  /\ pending_commits' = batch
           /\ IF ReachedThreshold(batch)
              THEN /\ task' = [task EXCEPT ![i] = "inFlush"]
                   /\ db_lock' = db_lock
              ELSE /\ task' = [task EXCEPT ![i] = "done"]
                   /\ db_lock' = Release(db_lock)
    /\ UNCHANGED <<file_cache, ret, opened, log_queue>>
    /\ write_failed' = write_failed
    /\ WorkerFrame

\* executemany, commit and pending_commits.clear() succeed.
FlushBatch(i) ==
    /\ pc \in PipelinePcs \cup {"interrupted"}
    /\ task[i] = "inFlush"
    /\ file_cache' = InsertOrReplace(file_cache, pending_commits)
    /\ pending_commits' = <<>>
    /\ task' = [task EXCEPT ![i] = "done"]
    /\ db_lock' = Release(db_lock)
    /\ write_failed' = FALSE
    /\ UNCHANGED <<ret, opened, log_queue>>
    /\ WorkerFrame

\* executemany or commit raises sqlite3.Error (the database is locked by
\* another process, the disk is full): the exception leaves the with block,
\* which releases the lock, and _get_file_hash, whose except clause catches
\* OSError only; pending_commits.clear() is not reached.
FlushBatchFails(i) ==
    /\ pc \in PipelinePcs \cup {"interrupted"}
    /\ task[i] = "inFlush"
    /\ store_failures < MaxStoreFailures
    /\ store_failures' = store_failures + 1
    /\ write_failed' = TRUE
    /\ task' = [task EXCEPT ![i] = "done"]
    /\ ret' = [ret EXCEPT ![i] = Raised]
    /\ db_lock' = Release(db_lock)
    /\ UNCHANGED <<file_cache, pending_commits, opened, log_queue>>
    /\ UNCHANGED <<fs, dirs, max_workers, pc, run, candidates, dest_files,
                   files, stat, result, completed, candidate_hashes,
                   dest_hashes, orphans, vanished, cleared, prev>>
    /\ UNCHANGED <<select_failures, touched, verbose, deletion>>

\* --------------------------------------------- _compute_hashes_parallel
\* Mutant of Record: the value of the future is not tested.
RecordAlways(map, file_hash, file_info) == Put(map, file_hash, file_info)

\* result[file_hash] = file_info, when the future holds a fingerprint
Record(map, file_hash, file_info) ==
    IF file_hash # NoHash THEN Put(map, file_hash, file_info) ELSE map

\* One iteration of the as_completed loop over a finished future.
Collect(i) ==
    /\ pc \in PipelinePcs
    /\ task[i] = "done"
    /\ task' = [task EXCEPT ![i] = "collected"]
    /\ completed' = completed + 1
    /\ result' = IF ret[i] = Raised THEN result
                  ELSE Record(result, ret[i], files[i])
    /\ UNCHANGED <<fs, dirs, max_workers, file_cache, pending_commits, pc, run,
                   candidates, dest_files, files, ret, stat, candidate_hashes,
                   dest_hashes, orphans, opened, vanished, cleared, prev>>
    /\ UNCHANGED <<control, log_queue, deletion>>

AllCollected == \A i \in DOMAIN task : task[i] = "collected"

\* The candidate pipeline returns its mapping (executor.shutdown(wait=True));
\* find_orphans submits the destination records of a candidate's size.
CandidatesHashed ==
    /\ pc = "hashCand"
    /\ AllCollected
    /\ candidate_hashes' = result
    /\ Submit(DestToHash(candidates, dest_files))
    /\ pc' = "hashDest"
    /\ UNCHANGED <<fs, dirs, max_workers, file_cache, pending_commits, run,
                   candidates, dest_files, dest_hashes, orphans, opened,
                   vanished, cleared, prev>>
    /\ UNCHANGED <<control, log_queue, deletion>>

\* The destination pipeline returns its mapping; dest_hashes are its keys.
DestinationsHashed ==
    /\ pc = "hashDest"
    /\ AllCollected
    /\ dest_hashes' = DOMAIN result
    /\ pc' = "flush"
    /\ UNCHANGED <<fs, dirs, max_workers, file_cache, pending_commits, run,
                   candidates, dest_files, files, task, ret, stat, result, completed,
                   candidate_hashes, orphans, opened, vanished, cleared, prev>>
    /\ UNCHANGED <<control, log_queue, deletion>>

\* Mutant of CancelFutures: shutdown without cancel_futures.
CancelNothing(futures) == futures

\* cancel_futures=True: the futures that are still in the work queue are
\* cancelled; a future that a thread has taken runs to its end
CancelFutures(futures) ==
    [i \in DOMAIN futures |->
        IF futures[i] = "queued" THEN "cancelled" ELSE futures[i]]

\* The positions of the controlling flow inside run(), where SIGINT raises
\* KeyboardInterrupt in it.
InterruptiblePcs ==
    {"start", "flush", "flushing", "resolve", "pause", "returned"}
        \cup PipelinePcs \cup LoopPcs

\* KeyboardInterrupt in the controlling flow.  Inside the try block of
\* _compute_hashes_parallel: executor.shutdown(wait=False,
\* cancel_futures=True) and raise; the step is the moment of the shutdown,
\* which cancels the futures still queued and waits for no thread.  Inside
\* the with block of _flush_cache: the lock is released, the write is not
\* committed.  Inside the deletion loop, at a question or between two
\* statements of delete_file: what was removed stays removed.  Anywhere:
\* the exception leaves run() for the handler of main().
Interrupt ==
    /\ pc \in InterruptiblePcs
    /\ pc' = "interrupted"
    /\ task' = IF pc \in PipelinePcs THEN CancelFutures(task) ELSE task
    /\ db_lock' = IF pc = "flushing" THEN Release(db_lock) ELSE db_lock
    /\ UNCHANGED <<fs, dirs, max_workers, file_cache, pending_commits, run,
                   candidates, dest_files, files, ret, stat, result, completed,
                   candidate_hashes, dest_hashes, orphans, opened, vanished,
                   cleared, prev>>
    /\ UNCHANGED <<store_failures, select_failures, write_failed, touched,
                   verbose, log_queue, deletion>>

\* main(): the interrupt reaches the handler, which ends the process with
\* os._exit(1); threads still running end with it.
Exit ==
    /\ pc = "interrupted"
    /\ pc' = "exited"
    /\ UNCHANGED <<fs, dirs, max_workers, file_cache, pending_commits, run,
                   candidates, dest_files, files, task, ret, stat, result, completed,
                   candidate_hashes, dest_hashes, orphans, opened, vanished,
                   cleared, prev>>
    /\ UNCHANGED <<control, log_queue, deletion>>

\* -------------------------------------------------------- _flush_cache
\* The frame of a step of the controlling flow in _flush_cache.
MainFrame ==
    /\ UNCHANGED <<fs, dirs, max_workers, run, candidates, dest_files, files,
                   task, ret, stat, result, completed, candidate_hashes, dest_hashes,
                   orphans, opened, vanished, cleared, prev>>
    /\ UNCHANGED <<select_failures, touched, verbose, log_queue, deletion>>

\* _flush_cache: with self.db_lock:
FlushAcquire ==
    /\ pc = "flush"
    /\ CanAcquire(db_lock)
    /\ db_lock' = MainThread
    /\ pc' = "flushing"
    /\ UNCHANGED <<file_cache, pending_commits, store_failures, write_failed>>
    /\ MainFrame

\* Mutant of FlushWrite: the block is left without writing.
FlushWriteSkipped ==
    /\ pc = "flushing"
    /\ db_lock' = Release(db_lock)
    /\ pc' = "resolve"
    /\ UNCHANGED <<file_cache, pending_commits, store_failures, write_failed>>
    /\ MainFrame

\* _flush_cache: the write of the pending batch, if there is one.
FlushWrite ==
    /\ pc = "flushing"
    /\ IF pending_commits # <<>>
       THEN /\ file_cache' = InsertOrReplace(file_cache, pending_commits)
            /\ pending_commits' = <<>>
            /\ write_failed' = FALSE
       ELSE UNCHANGED <<file_cache, pending_commits, write_failed>>
    /\ db_lock' = Release(db_lock)
    /\ pc' = "resolve"
    /\ UNCHANGED store_failures
    /\ MainFrame

\* _flush_cache: executemany or commit raises sqlite3.Error.  The exception
\* leaves the with block, which releases the lock, find_orphans and run();
\* main() catches KeyboardInterrupt only: the process ends with the batch
\* still pending.
FlushWriteFails ==
    /\ pc = "flushing"
    /\ pending_commits # <<>>
    /\ store_failures < MaxStoreFailures
    /\ store_failures' = store_failures + 1
    /\ write_failed' = TRUE
    /\ db_lock' = Release(db_lock)
    /\ pc' = "crashed"
    /\ UNCHANGED <<file_cache, pending_commits>>
    /\ MainFrame

\* ------------------------------------------------ find_orphans, the end
\* The content filter and the start of the pause.  Without orphans the
\* list is returned at once.  With orphans and a standard input that is a
\* terminal, select.select waits for a line or for 10 seconds.  With orphans
\* and a standard input that is no terminal the pause is time.sleep(10),
\* where time is the function imported from the time module:
\* AttributeError, nothing is returned.
Resolve ==
    /\ pc = "resolve"
    /\ orphans' = ContentFilter(candidate_hashes, dest_hashes)
    /\ \E isatty \in BOOLEAN :
           pc' = IF orphans' = {} THEN "returned"
                 ELSE IF isatty THEN "pause" ELSE "crashed"
    /\ UNCHANGED <<fs, dirs, max_workers, file_cache, pending_commits, run,
                   candidates, dest_files, files, task, ret, stat, result, completed,
                   candidate_hashes, dest_hashes, opened, vanished, cleared, prev>>
    /\ UNCHANGED <<control, log_queue, deletion>>

\* The end of the pause: a line was typed or the 10 seconds are over;
\* find_orphans returns the list.
Pause ==
    /\ pc = "pause"
    /\ pc' = "returned"
    /\ UNCHANGED <<fs, dirs, max_workers, file_cache, pending_commits, run,
                   candidates, dest_files, files, task, ret, stat, result, completed,
                   candidate_hashes, dest_hashes, orphans, opened, vanished,
                   cleared, prev>>
    /\ UNCHANGED <<control, log_queue, deletion>>

\* ------------------------------------------------------- the environment
\* Another invocation of the program: a new process, with a new
\* OrphanSweeper, on the same filesystem and cache file, with the same
\* command line.
NewRun ==
    /\ pc \in EndPcs
    /\ run < MaxRuns
    /\ run' = run + 1
    /\ pc' = "start"
    /\ prev' = [pc |-> pc, orphans |-> orphans, cleared |-> cleared,
                failures |-> store_failures + select_failures]
    /\ cleared' = FALSE
    /\ pending_commits' = <<>>
    /\ candidates' = <<>>
    /\ dest_files' = <<>>
    /\ files' = <<>>
    /\ task' = <<>>
    /\ ret' = <<>>
    /\ stat' = <<>>
    /\ result' = EmptyMap
    /\ completed' = 0
    /\ candidate_hashes' = EmptyMap
    /\ dest_hashes' = {}
    /\ orphans' = {}
    /\ opened' = {}
    /\ db_lock' = Free
    /\ store_failures' = 0
    /\ select_failures' = 0
    /\ write_failed' = FALSE
    /\ log_queue' = <<>>
    /\ yes_to_all' = FALSE
    /\ deleted_files' = {}
    /\ asked' = 0
    /\ visited' = {}
    /\ replies' = <<>>
    /\ passed' = {}
    /\ current' = NoOrphan
    /\ UNCHANGED <<fs, dirs, max_workers, file_cache, vanished>>
    /\ UNCHANGED <<touched, verbose, dry_run, auto_delete, force_delete_folders,
                   litter>>

\* An invocation with --clear-cache: clear_cache() and return.
ClearCache ==
    /\ pc \in EndPcs
    /\ run < MaxRuns
    /\ ~cleared
    /\ file_cache' = {}
    /\ cleared' = TRUE
    /\ UNCHANGED <<fs, dirs, max_workers, pending_commits, pc, run, candidates,
                   dest_files, files, task, ret, stat, result, completed,
                   candidate_hashes, dest_hashes, orphans, opened, vanished, prev>>
    /\ UNCHANGED <<control, log_queue, deletion>>

\* Another process unlinks a file, at any moment.
Vanish(f) ==
    /\ vanished < MaxVanished
    /\ fs[f].exists
    /\ fs' = [fs EXCEPT ![f].exists = FALSE]
    /\ vanished' = vanished + 1
    /\ UNCHANGED <<dirs, max_workers, file_cache, pending_commits, pc, run,
                   candidates, dest_files, files, task, ret, stat, result, completed,
                   candidate_hashes, dest_hashes, orphans, opened, cleared, prev>>
    /\ UNCHANGED <<control, log_queue, deletion>>


\* The steps of the pool thread that runs task i.
WorkerStep(i) ==
    \/ TakeTask(i)
    \/ BeginTask(i)
    \/ AcquireLookup(i)
    \/ LookupCache(i)
    \/ HashFile(i)
    \/ AcquireAppend(i)
    \/ AppendRow(i)
    \/ FlushBatch(i)
    \/ FlushBatchFails(i)

\* A step of the pool thread that runs the future i of the batch.  In a run
\* over fewer files than FlushThreshold the batch never reaches the
\* threshold and the last two steps of WorkerStep are never enabled.
PoolThread(i) == i \in DOMAIN task /\ WorkerStep(i)

\* The steps of the controlling flow after the scans, in a run that is not
\* interrupted.
AfterScan ==
    \/ \E i \in DOMAIN task : Collect(i)
    \/ CandidatesHashed
    \/ DestinationsHashed
    \/ FlushAcquire
    \/ FlushWrite
    \/ FlushWriteFails
    \/ Resolve
    \/ Pause

\* The steps of the controlling flow of a run that is not interrupted.
MainStep == FindOrphansScan \/ AfterScan

NextPool == MainStep \/ \E i \in DOMAIN task : PoolThread(i)
Next == NextPool \/ Interrupt \/ Exit

NextRuns ==
    \/ Next
    \/ \E f \in Files : Vanish(f)
    \/ NewRun
    \/ ClearCache

\* One invocation of the program.
Spec == Init /\ [][Next]_vars

\* Successive invocations on one cache file, on a filesystem that loses files.
SpecRuns == InitRuns /\ [][NextRuns]_vars

\* The caches a run can find: rows that earlier runs wrote for files that
\* are still as they were.
CacheRowOf(f) ==
    Row(f, fs[f].mtime, Len(fs[f].content),
        ComputeDigest(fs[f].content, Len(fs[f].content)))

InitCache ==
    file_cache \in SUBSET { CacheRowOf(f) : f \in { g \in Files : fs[g].exists /\ fs[g].readable } }

\* Two source files and a destination file, no subdirectories.
InitLock ==
    /\ InitFs(3)
    /\ fs[Paths[2]].dir = <<"src">>
    /\ fs[Paths[3]].dir = <<"d1">>
    /\ dirs = [r \in Roots |-> {}]
    /\ max_workers \in 1..MaxWorkers
    /\ InitCache
    /\ pc = "start"
    /\ run = 1
    /\ Fresh
    /\ vanished = 0
    /\ cleared = FALSE
    /\ prev = NoRun
    /\ db_lock = Free
    /\ store_failures = 0
    /\ select_failures = 0
    /\ write_failed = FALSE
    /\ touched = 0
    /\ log_queue = <<>>
    /\ yes_to_all = FALSE
    /\ deleted_files = {}
    /\ asked = 0
    /\ visited = {}
    /\ replies = <<>>
    /\ passed = {}
    /\ current = NoOrphan
    /\ InitArgs
    /\ InitNoLitter

\* One invocation over two source files and a destination file, with every
\* cache an earlier run can have left.
SpecLock == InitLock /\ [][Next]_vars

\* A pool thread runs the futures of the batch; the scheduler lets every
\* thread that can take a step take one, and the controlling flow likewise.
PoolFairness ==
    /\ WF_vars(MainStep)
    /\ \A i \in 1..Len(Paths) : WF_vars(PoolThread(i))

\* The filesystems of InitLock in which the contents are the same and only
\* the second source file varies in its mtime: batches of one and of two
\* records, with every cache and every unreadable file.
InitPool ==
    /\ InitLock
    /\ \A f \in Files : fs[f].content = Plain
    /\ fs[Paths[3]].mtime = 2

\* One invocation that no interrupt reaches, under a fair scheduler.
SpecPool == InitPool /\ [][NextPool]_vars /\ PoolFairness

\* ================================================= the threshold flush
\* A run over a batch large enough for the pending batch to reach the
\* threshold inside a pool thread.  The source files have pairwise different
\* contents; each destination file is a copy of a source file with another
\* mtime.
BatchContent(i) == Content(i, min_size)

BatchAttr(i) ==
    IF i <= NumBatchSources
    THEN [dir |-> <<"src">>, content |-> BatchContent(i), mtime |-> 1,
          readable |-> TRUE, exists |-> TRUE]
    ELSE [dir |-> <<"d1">>, content |-> BatchContent(i - NumBatchSources),
          mtime |-> 2, readable |-> TRUE, exists |-> TRUE]

\* The run is taken up inside the candidate pipeline, at the moment when all
\* the candidates but the last FreeTail have been hashed and collected, one
\* after the other in the order of submission: their rows are pending, their
\* fingerprints are in the mapping, the last FreeTail futures are queued and
\* no thread holds the lock.
InitBatch ==
    /\ fs = [p \in Range(BatchPaths) |->
                BatchAttr(CHOOSE i \in DOMAIN BatchPaths : BatchPaths[i] = p)]
    /\ dirs = [r \in Roots |-> {}]
    /\ max_workers \in 1..MaxWorkers
    /\ file_cache = {}
    /\ pc = "hashCand"
    /\ run = 1
    /\ dest_files = DestFiles
    /\ candidates = MetadataFilter(SourceFiles, DestFiles)
    /\ files = candidates
    /\ LET hashed == 1..(Len(files) - FreeTail)
           Digest(i) == ComputeDigest(fs[files[i].path].content, files[i].size)
       IN  /\ task = [i \in DOMAIN files |->
                         IF i \in hashed THEN "collected" ELSE "queued"]
           /\ ret = [i \in DOMAIN files |->
                        IF i \in hashed THEN Digest(i) ELSE NoHash]
           /\ stat = [i \in DOMAIN files |->
                         IF i \in hashed THEN Stat(files[i].path) ELSE NoStat]
           /\ result = [h \in { Digest(i) : i \in hashed } |->
                           files[CHOOSE i \in hashed : Digest(i) = h]]
           /\ completed = Cardinality(hashed)
           /\ pending_commits =
                  [i \in hashed |-> Row(files[i].path, files[i].mtime,
                                        files[i].size, Digest(i))]
           /\ opened = { files[i].path : i \in hashed }
    /\ candidate_hashes = EmptyMap
    /\ dest_hashes = {}
    /\ orphans = {}
    /\ vanished = 0
    /\ cleared = FALSE
    /\ prev = NoRun
    /\ db_lock = Free
    /\ store_failures = 0
    /\ select_failures = 0
    /\ write_failed = FALSE
    /\ touched = 0
    /\ log_queue = <<>>
    /\ yes_to_all = FALSE
    /\ deleted_files = {}
    /\ asked = 0
    /\ visited = {}
    /\ replies = <<>>
    /\ passed = {}
    /\ current = NoOrphan
    /\ InitArgs
    /\ InitNoLitter

\* The steps of the run from there on.
NextBatch ==
    \/ AfterScan
    \/ \E i \in DOMAIN task : WorkerStep(i)
    \/ Interrupt
    \/ Exit

\* One invocation over the large batch, from the last candidates on.
SpecBatch == InitBatch /\ [][NextBatch]_vars

\* ===================================================== _get_file_hash
\* _get_file_hash on a file of any size, the small ones that the scanner
\* leaves out included: the one candidate of a run was scanned with
\* min_size blocks and has since been rewritten by another process, with
\* any content of up to MaxFileSize blocks, or removed, or made unreadable.
Blocks == {1, 2}

\* The contents of at most n blocks.
ContentsUpTo(n) == UNION { [1..k -> Blocks] : k \in 0..n }

\* The candidate pipeline has submitted the one candidate.
InitHash ==
    /\ \E c \in ContentsUpTo(MaxFileSize) \cup Contents \cup {Longer},
          r \in BOOLEAN, e \in BOOLEAN :
           fs = [f \in Files |->
                    IF f = Paths[1]
                    THEN [dir |-> <<"src">>, content |-> c, mtime |-> 1,
                          readable |-> r, exists |-> e]
                    ELSE Absent]
    /\ dirs = [r \in Roots |-> {}]
    /\ max_workers = 1
    /\ file_cache = {}
    /\ pc = "hashCand"
    /\ run = 1
    /\ pending_commits = <<>>
    /\ candidates = << [path |-> Paths[1], size |-> min_size, mtime |-> 1] >>
    /\ dest_files = <<>>
    /\ files = candidates
    /\ task = <<"queued">>
    /\ ret = <<NoHash>>
    /\ stat = <<NoStat>>
    /\ result = EmptyMap
    /\ completed = 0
    /\ candidate_hashes = EmptyMap
    /\ dest_hashes = {}
    /\ orphans = {}
    /\ opened = {}
    /\ vanished = 0
    /\ cleared = FALSE
    /\ prev = NoRun
    /\ db_lock = Free
    /\ store_failures = 0
    /\ select_failures = 0
    /\ write_failed = FALSE
    /\ touched = 0
    /\ log_queue = <<>>
    /\ yes_to_all = FALSE
    /\ deleted_files = {}
    /\ asked = 0
    /\ visited = {}
    /\ replies = <<>>
    /\ passed = {}
    /\ current = NoOrphan
    /\ InitArgs
    /\ InitNoLitter

\* The pool thread runs the call.
NextHash == \E i \in DOMAIN task : PoolThread(i)

\* The call of _get_file_hash on files of every size up to MaxFileSize.
SpecHash == InitHash /\ [][NextHash]_vars

\* ====================================================== changed files
\* Another process rewrites a file, at any moment: it gets another content,
\* another mtime or both; a rewrite can keep the size and restore the mtime
\* (cp -p, rsync -t, os.utime).
TouchContents == Contents \cup { Longer }

Touch(f) ==
    /\ touched < MaxTouched
    /\ fs[f].exists
    /\ \E c \in TouchContents, m \in Mtimes :
           /\ <<c, m>> # <<fs[f].content, fs[f].mtime>>
           /\ fs' = [fs EXCEPT ![f].content = c, ![f].mtime = m]
    /\ touched' = touched + 1
    /\ UNCHANGED <<dirs, max_workers, file_cache, pending_commits, pc, run,
                   candidates, dest_files, files, task, ret, stat, result,
                   completed, candidate_hashes, dest_hashes, orphans, opened,
                   vanished, cleared, prev>>
    /\ UNCHANGED <<db_lock, store_failures, select_failures, write_failed,
                   verbose, log_queue, deletion>>

\* Two files that can be read, in directories without subdirectories.
InitTouch == InitRuns /\ \A f \in Files : fs[f].readable

NextTouch ==
    \/ Next
    \/ NewRun
    \/ ClearCache
    \/ \E f \in Files : Touch(f)

\* Successive invocations on one cache file, on a filesystem whose files
\* are rewritten during and between the invocations.
SpecTouch == InitTouch /\ [][NextTouch]_vars

\* ==================================================== the verbose log
\* One invocation, verbose or not, on a filesystem that loses files while
\* they are hashed.  The lines a pool thread puts on log_queue are the only
\* output of _get_file_hash: neither of its except clauses writes a line.
InitDiag ==
    /\ InitFs(2)
    /\ dirs = [r \in Roots |-> {}]
    /\ InitProgram
    /\ verbose \in BOOLEAN
    /\ dry_run = FALSE
    /\ auto_delete = FALSE
    /\ force_delete_folders = FALSE
    /\ InitNoLitter

NextDiag == Next \/ \E f \in Files : Vanish(f)

SpecDiag == InitDiag /\ [][NextDiag]_vars

\* ================================================= files of two sizes
\* One invocation over three readable files of two sizes, in directories
\* without subdirectories.
InitSizes ==
    /\ fs \in [Files -> [dir : { <<r>> : r \in Roots }, content : TouchContents,
                        mtime : Mtimes, readable : {TRUE}, exists : {TRUE}]]
    /\ fs[Paths[1]].dir = <<"src">>
    /\ fs[Paths[1]].mtime = 1
    /\ dirs = [r \in Roots |-> {}]
    /\ InitProgram
    /\ InitArgs
    /\ InitNoLitter

SpecSizes == InitSizes /\ [][Next]_vars

\* ================================================== the deletion loop
\* run() after find_orphans returned: the loop over the orphans with
\* confirm_deletion and delete_file, then the summary.
Stems == {"a", "b", "c"}

\* file_path.stem
Stem(f) == CHOOSE st \in Stems : st \o ".mkv" = f

\* file_path.parent and its name
Parent(f) == fs[f].dir
ParentName(f) == Parent(f)[Len(Parent(f))]

\* The files of the universe that are in the folder of f, f left out.
Siblings(f) ==
    { g \in DOMAIN fs : g # f /\ fs[g].exists /\ fs[g].dir = Parent(f) }

\* Mutant of ShouldDeleteParent: any subfolder counts, whatever its name.
ShouldDeleteParentAnyName(f) == Len(Parent(f)) = 2

\* delete_file, line 405: the folder has the name of the file without its
\* suffix.
ShouldDeleteParent(f) == ParentName(f) = Stem(f)

\* The lines a user types at "Delete this file?": the answers the prompt
\* and the message name and their long forms, some in capitals or between
\* blanks, the empty line and another word.
TypedLines == {"", "y", "Yes", "n", "no", "a", " all ", "q", "Q", "quit", "x"}

\* The lines a user types at "Delete remaining files and folder?".
FolderLines == {"y", "Yes", "n"}

\* input(...).lower().strip(), lines 317 and 434, on these lines.
LowerStrip(line) ==
    CASE line = "Yes" -> "yes"
      [] line = " all " -> "all"
      [] line = "Q" -> "q"
      [] OTHER -> line

\* The values of choice at the two questions.
TypedAnswers == { LowerStrip(line) : line \in TypedLines }
FolderAnswers == { LowerStrip(line) : line \in FolderLines }

\* The number of answers to "Delete this file?" that confirm_deletion
\* rejects in one run.
MaxInvalid == 1

\* confirm_deletion: whether an answer is read.
Asks(auto, dry) == ~dry /\ ~auto

\* confirm_deletion, lines 318-328: what a typed answer leads to.
Verdict(choice) ==
    CASE choice \in {"", "y", "yes"} -> "yes"
      [] choice \in {"n", "no"} -> "no"
      [] choice \in {"a", "all"} -> "all"
      [] choice = "q" -> "quit"
      [] OTHER -> "invalid"

\* An answer as it is kept in replies.
Reply(q, f, answer) == [q |-> q, path |-> f, answer |-> answer]

\* The rejected answers read so far.
Rejected ==
    { i \in DOMAIN replies :
        replies[i].q = "file" /\ Verdict(replies[i].answer) = "invalid" }

\* The frame of a step of the deletion loop.
LoopFrame ==
    /\ UNCHANGED <<max_workers, file_cache, pending_commits, run, candidates,
                   dest_files, files, task, ret, stat, result, completed,
                   candidate_hashes, dest_hashes, orphans, opened, vanished,
                   cleared, prev>>
    /\ UNCHANGED <<control, log_queue, dry_run, auto_delete, force_delete_folders>>

\* The iteration ends: delete_file returned ok, or was not called (ok is
\* FALSE); run() appends the orphan to deleted_files on True.
EndIteration(ok) ==
    /\ deleted_files' = IF ok THEN deleted_files \cup {current} ELSE deleted_files
    /\ visited' = visited \cup {current}
    /\ current' = NoOrphan
    /\ pc' = "returned"

\* for orphan in orphans: the next orphan o.  With yes_to_all, dry_run or
\* auto_delete no answer is read and delete_file is called; otherwise
\* confirm_deletion waits at input().
LoopHead(o) ==
    /\ pc = "returned"
    /\ o \in orphans \ visited
    /\ current' = o
    /\ IF yes_to_all \/ ~Asks(auto_delete, dry_run)
       THEN /\ pc' = "delete"
            /\ passed' = passed \cup {o}
       ELSE /\ pc' = "confirm"
            /\ passed' = passed
    /\ UNCHANGED <<fs, dirs, litter, yes_to_all, deleted_files, asked, visited,
                   replies>>
    /\ LoopFrame

\* confirm_deletion reads an answer at input() (line 317): yes and all call
\* delete_file, no goes on to the next orphan, q ends the process with
\* sys.exit(0), any other answer prints a message and asks again.
ConfirmDeletion ==
    /\ pc = "confirm"
    /\ \E line \in TypedLines :
           LET choice == LowerStrip(line)
               said == Verdict(choice)
           IN  /\ said = "invalid" => Cardinality(Rejected) < MaxInvalid
               /\ asked' = asked + 1
               /\ replies' = Append(replies, Reply("file", current.path, choice))
               /\ yes_to_all' = IF said \in {"quit", "invalid"} THEN yes_to_all
                                ELSE said = "all"
               /\ passed' = IF said \in {"yes", "all"} THEN passed \cup {current}
                            ELSE passed
               /\ IF said = "no"
                  THEN EndIteration(FALSE)
                  ELSE /\ pc' = CASE said \in {"yes", "all"} -> "delete"
                                  [] said = "quit" -> "quit"
                                  [] OTHER -> "confirm"
                       /\ UNCHANGED <<deleted_files, visited, current>>
    /\ UNCHANGED <<fs, dirs, litter>>
    /\ LoopFrame

\* input() meets the end of standard input, at either question: EOFError,
\* which is no OSError and which neither delete_file nor run() nor main()
\* catches.  The process ends; at the question about the folder the file
\* is already unlinked and delete_file has not returned.
EndOfInput ==
    /\ pc \in {"confirm", "askFolder"}
    /\ pc' = "crashed"
    /\ UNCHANGED <<fs, dirs, litter, yes_to_all, deleted_files, asked, visited,
                   replies, passed, current>>
    /\ LoopFrame

\* Mutant of DeleteFile: dry_run is not looked at.
DeleteFileAnyway ==
    /\ pc = "delete"
    /\ \E unlink_ok \in BOOLEAN :
           IF ~(fs[current.path].exists /\ unlink_ok)
           THEN /\ EndIteration(FALSE)
                /\ fs' = fs
           ELSE /\ fs' = [fs EXCEPT ![current.path].exists = FALSE]
                /\ IF ShouldDeleteParent(current.path)
                   THEN /\ pc' = "listdir"
                        /\ UNCHANGED <<deleted_files, visited, current>>
                   ELSE EndIteration(TRUE)
    /\ UNCHANGED <<dirs, litter, yes_to_all, asked, replies, passed>>
    /\ LoopFrame

\* delete_file, lines 404-417.  With dry_run it logs and returns True.
\* Otherwise file_path.unlink(): an OSError (unlink_ok is FALSE, or the file
\* is gone) returns False; after the unlink, a file in a folder of another
\* name returns True, a file in the folder named after it goes on to the
\* folder.
DeleteFile ==
    /\ pc = "delete"
    /\ IF dry_run
       THEN /\ EndIteration(TRUE)
            /\ fs' = fs
       ELSE \E unlink_ok \in BOOLEAN :
                IF ~(fs[current.path].exists /\ unlink_ok)
                THEN /\ EndIteration(FALSE)
                     /\ fs' = fs
                ELSE /\ fs' = [fs EXCEPT ![current.path].exists = FALSE]
                     /\ IF ShouldDeleteParent(current.path)
                        THEN /\ pc' = "listdir"
                             /\ UNCHANGED <<deleted_files, visited, current>>
                        ELSE EndIteration(TRUE)
    /\ UNCHANGED <<dirs, litter, yes_to_all, asked, replies, passed>>
    /\ LoopFrame

\* dirs without the folder d.
WithoutFolder(d) == [dirs EXCEPT ![d[1]] = @ \ {d[2]}]

\* delete_file, lines 419-434: parent_dir.iterdir() and what follows it up
\* to the question.  An OSError of iterdir or of rmdir is caught at line
\* 453 and delete_file returns True with the folder in place.  An empty
\* folder is removed; with entries left and force_delete_folders the
\* answer is 'y', without it input() waits for the answer.
ListFolder ==
    /\ pc = "listdir"
    /\ \E iterdir_ok \in BOOLEAN, rmdir_ok \in BOOLEAN :
           LET folder == Parent(current.path)
               remaining_files == Siblings(current.path) # {} \/ folder \in litter
           IN  IF ~iterdir_ok
               THEN /\ EndIteration(TRUE)
                    /\ dirs' = dirs
               ELSE IF ~remaining_files
               THEN /\ EndIteration(TRUE)
                    /\ dirs' = IF rmdir_ok THEN WithoutFolder(folder) ELSE dirs
               ELSE /\ pc' = IF force_delete_folders THEN "sweep" ELSE "askFolder"
                    /\ UNCHANGED <<dirs, deleted_files, visited, current>>
    /\ UNCHANGED <<fs, litter, yes_to_all, asked, replies, passed>>
    /\ LoopFrame

\* delete_file, lines 434-436: the answer to the question about the folder;
\* any answer but y and yes leaves the folder and returns True.
FolderAnswer ==
    /\ pc = "askFolder"
    /\ \E line \in FolderLines :
           LET choice == LowerStrip(line)
           IN  /\ asked' = asked + 1
               /\ replies' = Append(replies, Reply("folder", current.path, choice))
               /\ IF choice \in {"y", "yes"}
                  THEN /\ pc' = "sweep"
                       /\ UNCHANGED <<deleted_files, visited, current>>
                  ELSE EndIteration(TRUE)
    /\ UNCHANGED <<fs, dirs, litter, yes_to_all, passed>>
    /\ LoopFrame

\* delete_file, lines 437-456: the entries left in the folder are removed
\* one by one, each failure is logged and passed over; then
\* parent_dir.rmdir(), whose OSError (the folder is not empty, or rmdir_ok
\* is FALSE) is logged; delete_file returns True.  removable: the files
\* whose unlink succeeds; sweepable: the other entries can be removed.
SweepFolder ==
    /\ pc = "sweep"
    /\ \E removable \in SUBSET Siblings(current.path),
          sweepable \in BOOLEAN, rmdir_ok \in BOOLEAN :
           LET folder == Parent(current.path)
               swept == folder \in litter /\ sweepable
               emptied == /\ removable = Siblings(current.path)
                          /\ folder \in litter => swept
           IN  /\ fs' = [g \in DOMAIN fs |->
                            IF g \in removable
                            THEN [fs[g] EXCEPT !.exists = FALSE] ELSE fs[g]]
               /\ litter' = IF swept THEN litter \ {folder} ELSE litter
               /\ dirs' = IF emptied /\ rmdir_ok THEN WithoutFolder(folder)
                          ELSE dirs
    /\ EndIteration(TRUE)
    /\ UNCHANGED <<yes_to_all, asked, replies, passed>>
    /\ LoopFrame

\* The end of run(): no orphan, or the loop is through.
Summary ==
    /\ pc = "returned"
    /\ visited = orphans
    /\ pc' = "finished"
    /\ UNCHANGED <<fs, dirs, max_workers, file_cache, pending_commits, run,
                   candidates, dest_files, files, task, ret, stat, result, completed,
                   candidate_hashes, dest_hashes, orphans, opened, vanished,
                   cleared, prev>>
    /\ UNCHANGED <<control, log_queue, deletion>>

\* a.mkv in the source, in the root or in the folder src/a named after it;
\* b.mkv in the source as well; c.mkv, if there is one, in the destination
\* d1.
InitDelete ==
    /\ fs \in [Files -> [dir : {<<"src">>, <<"d1">>, <<"src", "a">>},
                        content : Contents, mtime : Mtimes,
                        readable : {TRUE}, exists : BOOLEAN]]
    /\ fs[Paths[1]].exists /\ fs[Paths[2]].exists
    /\ fs[Paths[1]].dir \in {<<"src">>, <<"src", "a">>}
    /\ fs[Paths[2]].dir \in {<<"src">>, <<"src", "a">>}
    /\ fs[Paths[3]].dir = <<"d1">>
    /\ ~fs[Paths[3]].exists => fs[Paths[3]].content = Plain
    /\ fs[Paths[1]].mtime = 1 /\ fs[Paths[2]].mtime = 1 /\ fs[Paths[3]].mtime = 2
    /\ fs[Paths[1]].content = Plain
    /\ dirs = [r \in Roots |-> IF r = "src" THEN {"a"} ELSE {}]
    /\ litter \in SUBSET { <<"src", "a">> }
    /\ max_workers = 1
    /\ file_cache = {}
    /\ pc = "start"
    /\ run = 1
    /\ Fresh
    /\ vanished = 0
    /\ cleared = FALSE
    /\ prev = NoRun
    /\ db_lock = Free
    /\ store_failures = 0
    /\ select_failures = 0
    /\ write_failed = FALSE
    /\ touched = 0
    /\ log_queue = <<>>
    /\ yes_to_all = FALSE
    /\ deleted_files = {}
    /\ asked = 0
    /\ visited = {}
    /\ replies = <<>>
    /\ passed = {}
    /\ current = NoOrphan
    /\ verbose = FALSE
    /\ dry_run \in BOOLEAN
    /\ auto_delete \in BOOLEAN
    /\ force_delete_folders \in BOOLEAN

\* The steps of the controlling flow in the deletion loop.
LoopStep ==
    \/ \E o \in orphans : LoopHead(o)
    \/ ConfirmDeletion
    \/ EndOfInput
    \/ DeleteFile
    \/ ListFolder
    \/ FolderAnswer
    \/ SweepFolder
    \/ Summary

NextDelete == Next \/ LoopStep

\* One invocation of run() with its deletion loop.
SpecDelete == InitDelete /\ [][NextDelete]_vars

\* ================================================================= types
\* The directories of all the filesystems: a root, a subdirectory of a
\* root, or a folder named after a file.
AllDirs ==
    Dirs \cup { <<r, st>> : r \in Roots, st \in Stems }

TypeOK ==
    /\ DOMAIN fs \in {Files, Range(BatchPaths)}
    /\ \A f \in DOMAIN fs :
           /\ DOMAIN fs[f] = {"dir", "content", "mtime", "readable", "exists"}
           /\ fs[f].dir \in AllDirs
           /\ fs[f].content \in Seq(Nat)
           /\ Len(fs[f].content) <= Max(MaxFileSize, min_size + 1)
           /\ fs[f].mtime \in Mtimes
           /\ fs[f].readable \in BOOLEAN
           /\ fs[f].exists \in BOOLEAN
    /\ dirs \in [Roots -> SUBSET (SubNames \cup Stems)]
    /\ litter \subseteq AllDirs
    /\ max_workers \in 1..MaxWorkers
    /\ pc \in {"start", "flush", "flushing", "resolve", "pause",
              "interrupted", "quit", "finished"}
                 \cup PipelinePcs \cup LoopPcs \cup EndPcs
    /\ run \in 1..MaxRuns
    /\ completed \in 0..Len(files)
    /\ DOMAIN task = DOMAIN files /\ DOMAIN ret = DOMAIN files
    /\ DOMAIN stat = DOMAIN files
    /\ \A i \in DOMAIN stat :
           stat[i] \in [mtime : Mtimes, size : Nat] \cup {NoStat}
    /\ \A i \in DOMAIN task :
           /\ task[i] \in {"queued", "done", "collected", "cancelled"} \cup WorkerPcs
           /\ files[i].path \in DOMAIN fs
           /\ ret[i] \in Seq(Nat) \cup {Raised}
    /\ \A r \in file_cache \cup Range(pending_commits) :
           /\ r.path \in DOMAIN fs
           /\ r.mtime \in Mtimes
           /\ r.size \in Nat
           /\ r.hash \in Seq(Nat) /\ r.hash # NoHash
    /\ DOMAIN candidate_hashes \subseteq Seq(Nat)
    /\ dest_hashes \subseteq Seq(Nat)
    /\ \A o \in orphans : o.path \in DOMAIN fs
    /\ opened \subseteq DOMAIN fs
    /\ vanished \in 0..MaxVanished
    /\ touched \in 0..MaxTouched
    /\ store_failures \in 0..MaxStoreFailures
    /\ select_failures \in 0..MaxSelectFailures
    /\ write_failed \in BOOLEAN
    /\ cleared \in BOOLEAN
    /\ db_lock \in {Free, MainThread} \cup DOMAIN task
    /\ verbose \in BOOLEAN
    /\ log_queue \in Seq([kind : {"Cache hit", "Calculating hash"},
                          name : DOMAIN fs])
    /\ dry_run \in BOOLEAN /\ auto_delete \in BOOLEAN
    /\ force_delete_folders \in BOOLEAN /\ yes_to_all \in BOOLEAN
    /\ visited \subseteq orphans /\ deleted_files \subseteq visited
    /\ current \in (orphans \ visited) \cup {NoOrphan}
    /\ pc \in LoopPcs \cup {"quit"} => current # NoOrphan
    /\ current # NoOrphan
           => pc \in LoopPcs \cup {"quit", "crashed", "interrupted", "exited"}
    /\ replies \in Seq([q : {"file", "folder"}, path : Files,
                        answer : TypedAnswers \cup FolderAnswers])
    /\ Len(replies) = asked
    /\ deleted_files \subseteq passed
    /\ passed \subseteq visited \cup {current}

\* ================================================================ claims
\* The fingerprint of a content as the design states it: the first
\* chunk_size blocks, chunk_size blocks centred on the midpoint and the last
\* chunk_size blocks, in half blocks (contents here are longer than two
\* chunks).
Fingerprint(c) ==
    LET bytes == Halves(c)
        n == Len(bytes)
        w == 2 * chunk_size
        mid == (n \div 2) - (w \div 2)
    IN  SubSeq(bytes, 1, w)
        \o SubSeq(bytes, mid + 1, mid + w)
        \o SubSeq(bytes, n - w + 1, n)

DestRoots == { dest_dirs[i][1] : i \in DOMAIN dest_dirs }

\* The files under the given destination directories.
UnderDestinations == { g \in Files : fs[g].exists /\ fs[g].dir[1] \in DestRoots }

\* The source files the scan of this run found.
ScannedSources == { SourceFiles[i] : i \in DOMAIN SourceFiles }

SharesMetadata(f, dfiles) ==
    \E i \in DOMAIN dfiles : dfiles[i].size = f.size /\ dfiles[i].mtime = f.mtime

\* C1: a source record whose (size, modified_at) pair equals that of a
\* scanned destination record is never a candidate, never gets an entry in
\* the candidate fingerprints and is never in the orphan list.
C1_MetadataFilterSound ==
    /\ \A i \in DOMAIN candidates : ~SharesMetadata(candidates[i], dest_files)
    /\ \A h \in DOMAIN candidate_hashes :
           ~SharesMetadata(candidate_hashes[h], dest_files)
    /\ \A o \in orphans : ~SharesMetadata(o, dest_files)

\* C1 witness: find_orphans returned orphans after hashing while a scanned
\* source record was removed by the metadata filter.
C1_Witness ==
    /\ pc = "returned"
    /\ orphans # {}
    /\ \E f \in ScannedSources : SharesMetadata(f, dest_files) /\ f \notin orphans

\* No access to the store has raised in this run.
NoStoreError == store_failures = 0 /\ select_failures = 0

\* C2 (as claimed): no file returned as an orphan has a file with the same
\* fingerprint under any of the given destination directories.  Stated for
\* filesystems where every file is readable and for runs without a store
\* error, so that only the directory pairing decides it.
C2_NoCopyInAnyDestination ==
    (pc = "returned" /\ NoStoreError /\ \A f \in Files : fs[f].readable)
        => \A o \in orphans : \A g \in UnderDestinations :
               Fingerprint(fs[g].content) # Fingerprint(fs[o.path].content)

\* C3 (as claimed): a candidate whose content is identical to that of a
\* scanned destination file is never returned as an orphan, in a run
\* without a store error.  It fails when the destination file cannot be
\* opened: it then has no fingerprint.
C3_IdenticalContentNeverOrphan ==
    (pc = "returned" /\ NoStoreError)
        => \A o \in orphans : \A i \in DOMAIN dest_files :
               fs[dest_files[i].path].content # fs[o.path].content

\* C3, for readable destinations: a candidate whose content is identical to
\* that of a scanned destination file that can be read is never returned as
\* an orphan, in a run without a store error.
C3_IdenticalReadableContentNeverOrphan ==
    (pc = "returned" /\ NoStoreError)
        => \A o \in orphans : \A i \in DOMAIN dest_files :
               fs[dest_files[i].path].readable
                   => fs[dest_files[i].path].content # fs[o.path].content

\* C4 (as claimed): every candidate whose fingerprint was computed and is
\* not among the destination fingerprints is in the returned orphan set.
\* Stated for runs without a store error, in which the fingerprint of
\* every readable candidate is computed.
C4_EveryUnmatchedCandidateReported ==
    (pc = "returned" /\ NoStoreError)
        => \A i \in DOMAIN candidates :
               ( /\ fs[candidates[i].path].readable
                 /\ Fingerprint(fs[candidates[i].path].content) \notin dest_hashes )
                   => candidates[i] \in orphans

\* C5 (as claimed): two completed runs on an unchanged filesystem return the
\* same orphan set, with the cache warm or cleared in between.  Stated for
\* runs without a store error.
C5_SameOrphansOnRerun ==
    (pc = "returned" /\ prev.pc = "returned" /\ vanished = 0
        /\ NoStoreError /\ prev.failures = 0)
        => orphans = prev.orphans

\* A run that follows a completed run on an unchanged filesystem, with the
\* cache as that run left it.
WarmRerun == run > 1 /\ prev.pc = "returned" /\ ~prev.cleared /\ vanished = 0

\* C6 (as claimed): in a run after a completed run on an unchanged
\* filesystem no file is opened for hashing and nothing is added to the
\* pending batch.
C6_RerunAllCacheHits ==
    WarmRerun => (opened = {} /\ pending_commits = <<>>)

\* The store has a row under the key that the stat of the call i returned.
HasRow(i) ==
    Lookup(file_cache, files[i].path, stat[i].mtime, stat[i].size) # NoHash

\* C6 (amended): in a run after a completed run on an unchanged filesystem,
\* a call of _get_file_hash whose (path, mtime, size) has a row in the
\* store ends in its lookup, with the fingerprint of the row or, when the
\* SELECT raises, with the store error: the file is not opened and nothing
\* is added to the pending batch; a file is opened only by a call whose key
\* has no row.  When no access to the store raised in the first run, the
\* files without a row are the files that cannot be read: they are the only
\* files opened, their hashing fails again and the pending batch stays
\* empty.
C6_RerunCacheHitsForHashedFiles ==
    /\ []((WarmRerun /\ prev.failures = 0)
             => ( /\ \A p \in opened : ~fs[p].readable
                  /\ pending_commits = <<>> ))
    /\ [][WarmRerun =>
            \A i \in DOMAIN task :
                ( /\ i \in DOMAIN task'
                  /\ task[i] = "inLookup" /\ task'[i] # "inLookup"
                  /\ HasRow(i) )
                    => /\ task'[i] = "done"
                       /\ ret'[i] \in
                              {Lookup(file_cache, files[i].path,
                                      stat[i].mtime, stat[i].size), Raised}
                       /\ UNCHANGED <<opened, pending_commits, file_cache>>]_vars
    /\ [][WarmRerun =>
            \A i \in DOMAIN task :
                (files[i].path \in opened' \ opened)
                    => (task[i] = "running" /\ ~HasRow(i))]_vars

\* C6 witness: a run after a completed run has collected the fingerprints of
\* a whole batch of two files without opening a file.
C6_Witness ==
    /\ WarmRerun
    /\ prev.failures = 0
    /\ pc = "hashCand"
    /\ Len(files) = 2
    /\ \A i \in DOMAIN files :
           task[i] = "collected" /\ ret[i] \notin {NoHash, Raised}
    /\ opened = {}

AfterInterrupt == pc \in {"interrupted", "exited"}

\* C7: the interrupt that arrives during a pipeline cancels the futures
\* that are still queued, all of them and no other, and waits for no
\* thread: a future that a thread has taken is left as it is.  No orphan
\* list exists then and no file has been deleted.  From then on a cancelled
\* future stays cancelled (its file is never opened), the pipeline collects
\* nothing more and returns no mapping, find_orphans builds and returns no
\* orphan list, and no file, folder or folder entry is removed.
C7_InterruptPropagates ==
    /\ [][(pc \in PipelinePcs /\ pc' = "interrupted")
            => ( /\ \A i \in DOMAIN task :
                        task'[i] = IF task[i] = "queued" THEN "cancelled"
                                   ELSE task[i]
                 /\ orphans' = {}
                 /\ deleted_files' = {}
                 /\ passed' = {} )]_vars
    /\ [][AfterInterrupt =>
            ( /\ AfterInterrupt'
              /\ \A i \in DOMAIN task :
                     /\ task'[i] # "queued"
                     /\ task[i] = "cancelled" => task'[i] = "cancelled"
              /\ UNCHANGED <<result, completed, candidate_hashes,
                             dest_hashes, orphans, deleted_files, passed,
                             fs, dirs, litter>> )]_vars
    /\ [](\A i \in DOMAIN task :
              task[i] = "cancelled"
                  => (stat[i] = NoStat /\ ret[i] = NoHash))

\* C7 witness: the process exited on an interrupt that arrived while one
\* future was in the queue and another had been taken by a thread: the
\* first is cancelled, the second was hashed after the interrupt and its
\* row is still pending.
C7_Witness ==
    /\ pc = "exited"
    /\ completed = 0
    /\ \E i \in DOMAIN task : task[i] = "cancelled"
    /\ \E i \in DOMAIN task :
           /\ task[i] = "done"
           /\ ret[i] \notin {NoHash, Raised}
           /\ files[i].path \in opened
    /\ pending_commits # <<>>

\* The row holds the fingerprint of the content of the file at its path with
\* its mtime and size.
RowMatchesContent(r) ==
    (r.mtime = fs[r.path].mtime /\ r.size = Len(fs[r.path].content))
        => r.hash = Fingerprint(fs[r.path].content)

\* C8 (as claimed): in every state, after an interrupt as well, every row of
\* the cache and every entry of the pending batch holds the fingerprint of
\* the content of the file at its path with its mtime and size, and a
\* lookup that returns a fingerprint returns that of the file's content.
C8_CacheHoldsContentFingerprints ==
    /\ [](\A r \in file_cache : RowMatchesContent(r))
    /\ [](\A k \in DOMAIN pending_commits :
             RowMatchesContent(pending_commits[k]))
    /\ [][\A i \in DOMAIN task :
             ( /\ i \in DOMAIN task'
               /\ task[i] = "inLookup" /\ task'[i] = "done"
               /\ ret'[i] # Raised )
                 => ret'[i] = Fingerprint(fs[files[i].path].content)]_vars

\* The pending batch is empty and the fingerprint of every file hashed in
\* the run is a row of the cache.
Flushed ==
    /\ pending_commits = <<>>
    /\ \A p \in opened :
           fs[p].readable
               => Row(p, fs[p].mtime, Len(fs[p].content),
                      Fingerprint(fs[p].content)) \in file_cache

\* C9: find_orphans builds the orphan set only in a state where the pending
\* batch is empty and the fingerprint of every file hashed in the run is a
\* row of the cache, and it stays so while the set is returned; the final
\* flush is entered when the destination pipeline has collected all its
\* futures, and a final flush that fails ends the run with the batch
\* pending and with no orphan set.
C9_FlushedBeforeReport ==
    /\ [](pc \in {"resolve", "pause", "returned"} => Flushed)
    /\ [](orphans # {} => Flushed)
    /\ [][orphans' # orphans => (pc = "resolve" /\ Flushed)]_vars
    /\ [][(pc' = "resolve" /\ pc # "resolve")
            => (pc = "flushing" /\ AllCollected /\ Flushed')]_vars
    /\ [][(pc = "flushing" /\ pc' = "crashed")
            => ( /\ pending_commits' = pending_commits
                 /\ pending_commits # <<>>
                 /\ orphans' = {} )]_vars
    /\ []((pc = "crashed" /\ pending_commits # <<>>) => orphans = {})

\* C9 witness: find_orphans returned orphans after hashing candidates and
\* destinations.
C9_Witness ==
    /\ pc = "returned"
    /\ orphans # {}
    /\ dest_hashes # {}
    /\ Cardinality(file_cache) >= 2

\* The hashing of the file at p can fail: it has disappeared or cannot be
\* read.
HashingFails(p) == ~fs[p].exists \/ ~fs[p].readable

\* The task i has ended without a fingerprint: stat, open or a read failed.
HashingFailed(i) == task[i] \in {"done", "collected"} /\ ret[i] = NoHash

\* The task i has ended with a fingerprint.
HashingDone(i) ==
    task[i] \in {"done", "collected"} /\ ret[i] \notin {NoHash, Raised}

\* C10: a task ends without a fingerprint, by a failure of stat, open or
\* read, only for a file that has disappeared or cannot be read; a pipeline
\* whose tasks are all collected has counted every task, a file whose
\* hashing failed has no entry in its mapping, and the fingerprint of every
\* file whose task ended with one is a key of it (a task that ended with a
\* store error has neither); the mapping of the candidate pipeline is what
\* find_orphans keeps, and every orphan is an entry of it, so that no
\* candidate whose hashing failed is in the orphan set.
C10_FailureIsLocal ==
    /\ [](\A i \in DOMAIN files :
              HashingFailed(i) => HashingFails(files[i].path))
    /\ []((pc \in PipelinePcs /\ AllCollected)
             => /\ completed = Len(files)
                /\ NoHash \notin DOMAIN result
                /\ Raised \notin DOMAIN result
                /\ \A i \in DOMAIN files :
                       /\ HashingFailed(i) \/ HashingDone(i) \/ ret[i] = Raised
                       /\ HashingFailed(i)
                              => \A h \in DOMAIN result : result[h] # files[i]
                       /\ HashingDone(i)
                              => /\ ret[i] \in DOMAIN result
                                 /\ ret[i] = Fingerprint(fs[files[i].path].content))
    /\ [][(pc = "hashCand" /\ pc' \notin {"hashCand", "interrupted"})
             => (AllCollected /\ candidate_hashes' = result)]_vars
    /\ [](\A o \in orphans :
              \E h \in DOMAIN candidate_hashes : candidate_hashes[h] = o)

\* C10 witness: a batch of two files is collected, one failed at stat or at
\* open, and the mapping holds the fingerprint of the other.
C10_Witness ==
    /\ pc \in PipelinePcs
    /\ AllCollected
    /\ Len(files) = 2
    /\ \E i, j \in DOMAIN files :
           /\ HashingFailed(i)
           /\ HashingDone(j)
           /\ result = (ret[j] :> files[j])

\* The threads that are inside a cache access: a pool thread inside one of
\* the two with blocks of _get_file_hash, the controlling flow inside
\* _flush_cache.
Accessing ==
    { i \in DOMAIN task : task[i] \in LockedPcs }
        \cup (IF pc = "flushing" THEN {MainThread} ELSE {})

\* C13: a thread that is inside a cache access during hashing (the lookup,
\* the append, the batch flush) holds db_lock, so no two accesses are in
\* progress at the same time, and the store and the pending batch change
\* only in a step of the thread that holds the lock.
C13_CacheAccessUnderLock ==
    /\ [](\A t \in Accessing : db_lock = t)
    /\ [](Cardinality(Accessing) <= 1)
    /\ [][(file_cache' # file_cache \/ pending_commits' # pending_commits)
             => (db_lock # Free /\ db_lock \in Accessing)]_vars

\* C13 witness: a pool thread is inside the append while the other waits
\* for the lock of its lookup.
C13_Witness ==
    \E i, j \in DOMAIN task :
        /\ task[i] = "inAppend"
        /\ task[j] = "atLookup"
        /\ db_lock = i

\* The number of futures the as_completed loop has been through.
Collected == { i \in DOMAIN task : task[i] = "collected" }

\* C20: without an interrupt each pipeline returns: every task of the batch
\* is submitted up front, the completed count is the number of futures
\* collected and is the batch size when the pipeline returns, no pool thread
\* is left in flight then; the run gets past both pipelines (or returns
\* early for want of candidates) and no thread is left waiting for db_lock.
C20_PipelineTerminates ==
    /\ [](DOMAIN task = DOMAIN files)
    /\ [](pc \in PipelinePcs => completed = Cardinality(Collected))
    /\ [][(pc \in PipelinePcs /\ pc' # pc)
             => (completed = Len(files) /\ InFlight = {} /\ AllCollected)]_vars
    /\ <>(pc = "returned" \/ (pc = "flush" /\ dest_hashes = DOMAIN result))
    /\ <>[](\A i \in DOMAIN task : task[i] \notin WaitingPcs)

\* C20 witness: a pipeline over two records run by two pool threads has
\* collected both.
C20_Witness ==
    /\ pc = "hashCand"
    /\ max_workers = 2
    /\ Len(files) = 2
    /\ AllCollected
    /\ completed = 2
    /\ Cardinality(file_cache) + Len(pending_commits) >= 2

\* C11 (as claimed): a run in which a write to the store failed does not
\* return an orphan set.
C11_FlushFailureAborts ==
    store_failures > 0 => pc # "returned"

\* The rows of the pending batch.
Pending == Range(pending_commits)

IsDigestOf(h, bytes) == h # NoHash /\ h = bytes

\* The three windows of a content, in half blocks: the first chunk_size
\* blocks, chunk_size blocks centred on the midpoint and the last chunk_size
\* blocks, each cut to the content.
Windows(c) ==
    LET bytes == Halves(c)
        n == Len(bytes)
        w == 2 * chunk_size
        mid == Max(0, (n \div 2) - (w \div 2))
        last == Max(0, n - w)
    IN  SubSeq(bytes, 1, Min(w, n))
        \o SubSeq(bytes, mid + 1, Min(mid + w, n))
        \o SubSeq(bytes, last + 1, n)

\* C12 (as claimed): there is a size threshold such that the fingerprint of
\* a file below it is the digest of the full content and the fingerprint of
\* a file at or above it is the digest of the three windows.  Stated for
\* the file of one call that met no store error, a file that is there and
\* can be read: some threshold accounts for its fingerprint.
C12_FingerprintPolicyBySize ==
    \A i \in DOMAIN task :
        (task[i] = "done" /\ ret[i] # Raised /\ ~HashingFails(files[i].path))
            => \E threshold \in 1..(min_size + 2) :
                   LET c == fs[files[i].path].content
                   IN  IF Len(c) < threshold
                       THEN IsDigestOf(ret[i], Halves(c))
                       ELSE IsDigestOf(ret[i], Windows(c))

\* C14: but for clear_cache no step removes or changes a row of the store;
\* a row that a call of _get_file_hash adds to the pending batch is under
\* the (path, mtime, size) that the call's stat returned, a key of which the
\* store has no row; the rows of a batch that is emptied within a run are in
\* the store, next to the rows of the earlier keys, and the batch is empty
\* when find_orphans builds the orphan list.
C14_CacheGrowsMonotonically ==
    /\ [][~(cleared' /\ ~cleared) => file_cache \subseteq file_cache']_vars
    /\ [][\A r \in Range(pending_commits') \ Range(pending_commits) :
             /\ \E i \in DOMAIN files :
                    /\ task[i] = "inAppend"
                    /\ r = Row(files[i].path, stat[i].mtime, stat[i].size,
                               ret[i])
             /\ \A q \in file_cache : ~SameKey(q, r)]_vars
    /\ [][(run' = run /\ pending_commits' = <<>>)
             => Range(pending_commits) \subseteq file_cache']_vars
    /\ [](pc = "resolve" => pending_commits = <<>>)

\* C14 witness: the second run has hashed a rewritten file and the store
\* holds the row of the old key and the row of the new key.
C14_Witness ==
    /\ run = 2
    /\ pc = "returned"
    /\ touched = 1
    /\ \E r, q \in file_cache :
           /\ r.path = q.path
           /\ <<r.mtime, r.size>> # <<q.mtime, q.size>>
           /\ q = CacheRowOf(q.path)
           /\ q.path \in opened

\* The lines of the run that show the name of the file at p.
LinesNaming(p) == { k \in DOMAIN log_queue : log_queue[k].name = p }

\* C15 (as claimed): a file whose hashing failed, because it vanished or
\* cannot be read, has exactly one line that identifies it.  Any line that
\* shows the file's name is taken for its diagnostic line.
C15_OneDiagnosticPerFailure ==
    \A i \in DOMAIN files :
        HashingFailed(i) => Cardinality(LinesNaming(files[i].path)) = 1

\* C16: when the metadata filter leaves no candidate, find_orphans, unless
\* the user interrupts it, returns the empty list in that step: no task is
\* submitted, no file is opened,
\* and the store and the pending batch are as they were.
C16_NoCandidatesShortCircuit ==
    /\ [][(pc = "start" /\ MetadataFilter(SourceFiles, DestFiles) = <<>>
                /\ pc' # "interrupted")
             => ( /\ pc' = "returned"
                  /\ orphans' = {}
                  /\ UNCHANGED <<files, task, ret, result, completed, opened,
                                 file_cache, pending_commits>> )]_vars
    /\ []((pc = "returned" /\ candidates = <<>>)
             => ( /\ orphans = {}
                  /\ files = <<>> /\ task = <<>>
                  /\ opened = {}
                  /\ pending_commits = <<>> ))

\* C16 witness: find_orphans returned at once because every scanned source
\* record has the size and mtime of a scanned destination record.
C16_Witness ==
    /\ pc = "returned"
    /\ candidates = <<>>
    /\ ScannedSources # {}
    /\ dest_files # <<>>
    /\ files = <<>>

\* The destination record has the size of a candidate.
HasCandidateSize(d) == \E i \in DOMAIN candidates : candidates[i].size = d.size

\* The stages of find_orphans from the destination pipeline on.
ContentStage ==
    {"hashDest", "flush", "flushing", "resolve", "pause", "returned", "crashed"}

\* C17: the batch of the destination pipeline is made of the destination
\* records that have a candidate's size, and of all of them; a destination
\* record of another size is never opened and no entry of the destination
\* mapping is for it.
C17_DestinationsOfCandidateSizeOnly ==
    /\ pc = "hashDest"
           => Range(files) = { d \in Range(dest_files) : HasCandidateSize(d) }
    /\ (pc \in ContentStage /\ candidates # <<>>)
           => /\ \A h \in DOMAIN result : HasCandidateSize(result[h])
              /\ \A d \in Range(dest_files) :
                     ~HasCandidateSize(d) => d.path \notin opened

\* C17 witness: the destination pipeline has hashed the one of two
\* destination records that has the candidate's size.
C17_Witness ==
    /\ pc = "hashDest"
    /\ AllCollected
    /\ Len(dest_files) = 2
    /\ Len(files) = 1
    /\ DOMAIN result # {}

\* C18: in dry-run mode no step removes a file, a folder or an entry of a
\* folder and no answer is read; every orphan the loop has been through
\* counts as deleted (delete_file returned True).
C18_DryRunRemovesNothing ==
    /\ [][dry_run => UNCHANGED <<fs, dirs, litter, asked>>]_vars
    /\ [](dry_run => (asked = 0 /\ deleted_files = visited /\ pc # "quit"))

\* C18 witness: a dry run is through a list of two orphans, one of them in
\* a folder that is named after it and holds other entries.
C18_Witness ==
    /\ dry_run
    /\ pc = "finished"
    /\ Cardinality(orphans) = 2
    /\ deleted_files = orphans
    /\ \E o \in orphans :
           /\ ParentName(o.path) = Stem(o.path)
           /\ Parent(o.path) \in litter
           /\ Siblings(o.path) # {}

\* C23: the end of find_orphans (the content filter and the pause) never
\* ends the run with an error, with orphans or without, whether standard
\* input is a terminal or not: the list is handed to the caller unless the
\* user interrupts.
C23_PauseReturnsOrphans ==
    [][(pc = "resolve" \/ pc = "pause") => pc' # "crashed"]_vars

\* The answers read for the question "Delete this file?", in order.
FileReplies == SelectSeq(replies, LAMBDA r : r.q = "file")

\* This step reads the given answer to "Delete this file?" for the orphan o.
Answering(o, answer) ==
    /\ pc = "confirm"
    /\ current = o
    /\ replies' = Append(replies, Reply("file", o.path, answer))

\* C21 (as claimed): the orphan the user answers "all" for is passed to
\* delete_file, and so is every orphan after it, with no question "Delete
\* this file?" asked any more; the answer "no" leaves its orphan and the
\* filesystem as they are and the loop goes on to the next orphan; the
\* answer "quit" ends the program, and nothing is deleted or passed to
\* delete_file after it.
C21_ConfirmationLoop ==
    /\ [][\A o \in orphans : Answering(o, "all") =>
              (yes_to_all' /\ o \in passed' /\ pc' = "delete")]_vars
    /\ [][yes_to_all =>
              /\ FileReplies' = FileReplies
              /\ yes_to_all'
              /\ (pc = "returned" /\ current' # NoOrphan)
                     => (pc' = "delete" /\ current' \in passed')]_vars
    /\ [][\A o \in orphans : Answering(o, "no") =>
              /\ visited' = visited \cup {o}
              /\ pc' = "returned"
              /\ UNCHANGED <<fs, dirs, litter, deleted_files, passed>>]_vars
    /\ [][\A o \in orphans : Answering(o, "quit") =>
              /\ pc' = "quit"
              /\ UNCHANGED <<fs, dirs, litter, deleted_files, passed, visited>>]_vars
    /\ [][pc = "quit" =>
              UNCHANGED <<fs, dirs, litter, deleted_files, passed, visited, pc>>]_vars

\* The folder of o holds nothing but o.
AloneInFolder(o) ==
    Siblings(o.path) = {} /\ Parent(o.path) \notin litter

\* The last answer read is yes to the question about the folder of the
\* orphan the loop is at.
AnsweredYes ==
    /\ replies # <<>>
    /\ replies[Len(replies)] \in
           { Reply("folder", current.path, a) : a \in {"y", "yes"} }

\* The orphan the loop is at lies in the folder named after it, and the
\* removal of what the folder holds is allowed: force_delete_folders is set
\* or the user has answered yes.
MaySweep ==
    /\ ParentName(current.path) = Stem(current.path)
    /\ force_delete_folders \/ AnsweredYes

\* C22: delete_file without dry-run removes a folder only if it is the
\* folder of the file it has unlinked, named after the file, and the folder
\* was left empty, or force_delete_folders is set, or the user has answered
\* yes, and only when nothing is left in it; a file other than the one it
\* was called for, or another entry of the folder, is removed only from
\* that folder and under the last two conditions; in every other case the
\* folder and its entries stay as they are.  A failing unlink of the file
\* itself returns False with nothing removed, and when delete_file returns
\* True the file is gone.
C22_FolderRemovedOnlyWhenAllowed ==
    /\ [][dirs' # dirs =>
            /\ ~dry_run
            /\ ParentName(current.path) = Stem(current.path)
            /\ ~fs[current.path].exists
            /\ dirs' = [dirs EXCEPT ![Parent(current.path)[1]] =
                                       @ \ {ParentName(current.path)}]
            /\ \A g \in Files :
                   fs'[g].exists => fs'[g].dir # Parent(current.path)
            /\ Parent(current.path) \notin litter'
            /\ current \in deleted_files'
            /\ \/ /\ pc = "listdir"
                  /\ AloneInFolder(current)
                  /\ UNCHANGED <<fs, litter>>
               \/ /\ pc = "sweep"
                  /\ MaySweep]_vars
    /\ [][\A g \in Files : fs'[g] # fs[g] =>
            /\ ~dry_run
            /\ fs'[g] = [fs[g] EXCEPT !.exists = FALSE]
            /\ \/ /\ pc = "delete"
                  /\ g = current.path
               \/ /\ pc = "sweep"
                  /\ fs[g].dir = Parent(current.path)
                  /\ MaySweep]_vars
    /\ [][litter' # litter =>
            /\ ~dry_run
            /\ pc = "sweep"
            /\ MaySweep
            /\ litter' = litter \ {Parent(current.path)}]_vars
    /\ [][(pc = "delete" /\ ~dry_run /\ pc' \notin {"delete", "interrupted"}
                /\ fs'[current.path].exists = fs[current.path].exists)
            => ( /\ pc' = "returned"
                 /\ visited' = visited \cup {current}
                 /\ UNCHANGED <<fs, dirs, litter, deleted_files>> )]_vars
    /\ [][\A o \in deleted_files' \ deleted_files :
            ~dry_run => (o = current /\ ~fs'[o.path].exists)]_vars

\* C22 witness: without force_delete_folders, the folder src/a named after
\* a.mkv held another file and another entry; the user answered yes and
\* delete_file removed them and the folder.
C22_Witness ==
    /\ ~dry_run /\ ~force_delete_folders
    /\ \E i \in DOMAIN replies : replies[i] = Reply("folder", Paths[1], "y")
    /\ "a" \notin dirs["src"]
    /\ litter = {}
    /\ ~fs[Paths[2]].exists
    /\ Cardinality(passed) = 1

====
